---- MODULE Spec2Model ----
(***************************************************************************)
(* A model of the api-retriever entity engine:                             *)
(*   util/uri_template.py   URITemplate.replace_variables                  *)
(*   retriever/entity.py    Entity, EntityList                             *)
(*   retriever/callbacks.py the pre- and post-request callbacks            *)
(*                                                                         *)
(* Python strings that are scanned or rewritten (URI templates, URIs and   *)
(* the values substituted into them) are sequences of one-character        *)
(* strings, so that the regular-expression scan and str.replace are        *)
(* computed character by character.                                        *)
(***************************************************************************)
EXTENDS Integers, Sequences, FiniteSets, TLC

VARIABLES
    \* -- a call of URITemplate.replace_variables (specification SpecURI)
    uri_template_str,   \* URITemplate.uri_template_str
    variable_values,    \* the argument of replace_variables
    uriResult,          \* what the last replace_variables call produced
    uriPc,              \* "call" before the call, "returned" / "raised" after
    \* -- an EntityList and the program using it
    configuration,      \* EntityList.configuration, an EntityConfiguration
    list,               \* EntityList.list, a sequence of Entity objects
    pc,                 \* position of the program using the EntityList
    error,              \* the exception the last operation raised, or NoError
    constructed,        \* every Entity constructed so far, in order (history)
    reads,              \* the input files read_from_csv was called on so far
    cur,                \* EntityList.retrieve_data: index of the entity in the loop
    step,               \* Entity.retrieve_data: the statement reached
    cb,                 \* index of the next callback of the running callback loop
    response,           \* the response object session.get returned
    count,              \* EntityList.retrieve_data: count
    events,             \* what retrieve_data has done so far, in order (history)
    csv_file            \* what write_to_csv has written

uriVars == <<uri_template_str, variable_values, uriResult, uriPc>>

listVars == <<configuration, list, pc, error, constructed, reads>>

retrieveVars == <<cur, step, cb, response, count, events>>

vars == <<uri_template_str, variable_values, uriResult, uriPc,
          configuration, list, pc, error, constructed, reads,
          cur, step, cb, response, count, events, csv_file>>

(***************************************************************************)
(* Bounds                                                                  *)
(***************************************************************************)
\* a URI template is the concatenation of at most MaxSegs segments
MaxSegs == 3
\* an input file of the program holds at most MaxRows data rows
MaxRows == 2
\* read_from_csv is called at most MaxReads times on one EntityList
MaxReads == 2

(***************************************************************************)
(* Strings                                                                 *)
(***************************************************************************)
\* \w of the placeholder pattern, over the alphabet of the model
WordChars ==
    {"a", "b", "c", "d", "e", "h", "i", "k", "l", "m", "n", "o", "p", "q", "r",
     "t", "x", "y", "z", "_", "1", "2"}

\* first index >= i of s that holds no word character (Len(s)+1 if none)
RECURSIVE WordRunEnd(_, _)
WordRunEnd(s, i) ==
    IF i > Len(s) \/ s[i] \notin WordChars THEN i ELSE WordRunEnd(s, i + 1)

\* URI_TEMPLATE_VARS_REGEX.findall(s), scanning from index i: the names of
\* the {identifier} tokens, left to right, repetitions included
RECURSIVE FindAllFrom(_, _)
FindAllFrom(s, i) ==
    IF i > Len(s) THEN <<>>
    ELSE IF s[i] = "{"
         THEN LET j == WordRunEnd(s, i + 1)
              IN  IF j > i + 1 /\ j <= Len(s) /\ s[j] = "}"
                  THEN <<SubSeq(s, i + 1, j - 1)>> \o FindAllFrom(s, j + 1)
                  ELSE FindAllFrom(s, i + 1)
         ELSE FindAllFrom(s, i + 1)

FindAll(s) == FindAllFrom(s, 1)

\* Python's s.replace(old, new) for a non-empty old: every non-overlapping
\* occurrence, left to right; the text put in is not scanned again
RECURSIVE ReplaceFrom(_, _, _, _)
ReplaceFrom(s, i, old, new) ==
    IF i > Len(s) THEN <<>>
    ELSE IF i + Len(old) - 1 <= Len(s) /\ SubSeq(s, i, i + Len(old) - 1) = old
         THEN new \o ReplaceFrom(s, i + Len(old), old, new)
         ELSE <<s[i]>> \o ReplaceFrom(s, i + 1, old, new)

StrReplace(s, old, new) == ReplaceFrom(s, 1, old, new)

\* "{" + variable + "}"
Placeholder(variable) == <<"{">> \o variable \o <<"}">>

(***************************************************************************)
(* URITemplate.replace_variables                                           *)
(***************************************************************************)
\* variable_values.get(variable, None) followed by "if value": the value is
\* used when the key is present and the string is not empty
HasValue(values, variable) ==
    variable \in DOMAIN values /\ values[variable] # <<>>

\* one pass of the for loop for each of uri_variables[k..]; the else branch
\* builds an IllegalArgumentError and drops it, so uri is left as it is
RECURSIVE ReplaceLoop(_, _, _, _)
ReplaceLoop(uri, uri_variables, k, values) ==
    IF k > Len(uri_variables) THEN uri
    ELSE LET variable == uri_variables[k]
         IN  IF HasValue(values, variable)
             THEN ReplaceLoop(StrReplace(uri, Placeholder(variable), values[variable]),
                              uri_variables, k + 1, values)
             ELSE ReplaceLoop(uri, uri_variables, k + 1, values)

\* the call's outcome: the returned uri; no path of the method raises
replace_variables(template, values) ==
    [raised |-> FALSE,
     uri    |-> ReplaceLoop(template, FindAll(template), 1, values)]

(***************************************************************************)
(* Python values.  A str held by an entity's input parameters is a         *)
(* sequence of characters; a value decoded from JSON, or built from one,   *)
(* is tagged: None, str, list or dict (a dict keeps its keys in insertion  *)
(* order in ks).                                                           *)
(***************************************************************************)
JNull == [k |-> "null"]
JStr(s) == [k |-> "str", s |-> s]
JArr(e) == [k |-> "arr", e |-> e]
JObj(ks, f) == [k |-> "obj", ks |-> ks, f |-> f]

\* a character no codec can encode (a lone surrogate, which json.loads
\* accepts in a string)
Surrogate == "\\ud800"

NoError == [kind |-> "none"]
Raise(kind, detail) == [kind |-> kind, detail |-> detail]

\* the characters of the names that occur in URI templates
NameChars ==
    ("id" :> <<"i", "d">>) @@ ("path" :> <<"p", "a", "t", "h">>)
    @@ ("line" :> <<"l", "i", "n", "e">>)
    @@ ("login" :> <<"l", "o", "g", "i", "n">>)
    @@ ("api_key" :> <<"a", "p", "i", "_", "k", "e", "y">>)
    @@ ("code_block" :> <<"c", "o", "d", "e", "_", "b", "l", "o", "c", "k">>)
    @@ ("code_block_normalized" :>
            <<"c", "o", "d", "e", "_", "b", "l", "o", "c", "k", "_",
              "n", "o", "r", "m", "a", "l", "i", "z", "e", "d">>)

Range(q) == { q[i] : i \in 1..Len(q) }

(***************************************************************************)
(* EntityConfiguration: the configurations of the model                    *)
(***************************************************************************)
\* [".", path]
DictMapping(path) == [first |-> ".", len |-> 2, path |-> path, inner |-> <<>>]
\* ["*"]
ListMapping == [first |-> "*", len |-> 1, path |-> <<>>, inner |-> <<>>]
\* ["*", {name: path, ...}]
ListElementMapping(inner) == [first |-> "*", len |-> 2, path |-> <<>>, inner |-> inner]

\* input_parameters ["id"], output_parameter_mapping {"name": [".", ["login"]]}
CfgUsers(ignore_duplicates) ==
    [name |-> "users",
     input_parameters |-> <<"id">>,
     output_parameter_mapping |->
         << [name |-> "name", mapping |-> DictMapping(<<"login">>)] >>,
     uri_template |-> <<"/", "{", "i", "d", "}", "?">> \o Placeholder(NameChars["api_key"]),
     pre_request_callbacks |-> <<>>,
     post_request_callbacks |-> <<>>,
     api_key |-> <<"k">>,
     ignore_duplicates |-> ignore_duplicates,
     delay_min |-> 0,
     delay_max |-> 1]

\* the files of a commit, filtered by the line that must occur in a patch
CfgFiles(ignore_duplicates) ==
    [name |-> "files",
     input_parameters |-> <<"path", "line">>,
     output_parameter_mapping |->
         << [name |-> "files", mapping |-> DictMapping(<<"files">>)] >>,
     uri_template |-> <<"/">> \o Placeholder(NameChars["path"]),
     pre_request_callbacks |-> <<>>,
     post_request_callbacks |-> <<"filter_patches_with_line">>,
     api_key |-> <<"k">>,
     ignore_duplicates |-> ignore_duplicates,
     delay_min |-> 0,
     delay_max |-> 0]

\* the files of a commit, filtered by a normalized code block
CfgCode(ignore_duplicates) ==
    [name |-> "code",
     input_parameters |-> <<"path", "code_block", "code_block_normalized">>,
     output_parameter_mapping |->
         << [name |-> "files", mapping |-> DictMapping(<<"files">>)] >>,
     uri_template |-> <<"/">> \o Placeholder(NameChars["path"]),
     pre_request_callbacks |->
         <<"validate_code_block_normalization", "validate_code_block_normalization">>,
     post_request_callbacks |-> <<"filter_patches_with_code_block">>,
     api_key |-> <<"k">>,
     ignore_duplicates |-> ignore_duplicates,
     delay_min |-> 0,
     delay_max |-> 0]

\* the commits of a repository, sorted, reduced to the first author e-mail
CfgCommits(ignore_duplicates) ==
    [name |-> "commits",
     input_parameters |-> <<"id">>,
     output_parameter_mapping |->
         << [name |-> "commits",
             mapping |-> ListElementMapping(
                 << [name |-> "commit_date", path |-> <<"date">>],
                    [name |-> "author_email", path |-> <<"email">>] >>)] >>,
     uri_template |-> <<"/">> \o Placeholder(NameChars["id"]),
     pre_request_callbacks |-> <<>>,
     post_request_callbacks |-> <<"sort_commits", "extract_email_from_commits">>,
     api_key |-> <<"k">>,
     ignore_duplicates |-> ignore_duplicates,
     delay_min |-> 0,
     delay_max |-> 0]

\* [first, path] with a first element that is neither "." nor "*"
OtherMapping(first, path) == [first |-> first, len |-> 2, path |-> path, inner |-> <<>>]

\* a configuration with the URI template "/{id}", no delay and the given
\* parameters, mapping and callbacks
CfgExtract(name, input_parameters, output_parameter_mapping, pre_request_callbacks, post_request_callbacks) ==
    [name |-> name,
     input_parameters |-> input_parameters,
     output_parameter_mapping |-> output_parameter_mapping,
     uri_template |-> <<"/">> \o Placeholder(NameChars["id"]),
     pre_request_callbacks |-> pre_request_callbacks,
     post_request_callbacks |-> post_request_callbacks,
     api_key |-> <<"k">>,
     ignore_duplicates |-> FALSE,
     delay_min |-> 0,
     delay_max |-> 0]

\* {"name": [".", ["owner", "login"]], "kind": [".", ["kind"]]}
CfgPair ==
    CfgExtract("pair", <<"id">>,
               << [name |-> "name", mapping |-> DictMapping(<<"owner", "login">>)],
                  [name |-> "kind", mapping |-> DictMapping(<<"kind">>)] >>,
               <<>>, <<>>)

\* {"a": ["a"], "b": ["b", "c"]}
InnerMapping ==
    << [name |-> "a", path |-> <<"a">>], [name |-> "b", path |-> <<"b", "c">>] >>

\* {"item": ["*"], "items": ["*", {...}], "kind": [".", ["kind"]]}
CfgLast ==
    CfgExtract("last", <<"id">>,
               << [name |-> "item", mapping |-> ListMapping],
                  [name |-> "items", mapping |-> ListElementMapping(InnerMapping)],
                  [name |-> "kind", mapping |-> DictMapping(<<"kind">>)] >>,
               <<>>, <<>>)

\* {"items": ["*", {...}], "item": ["*"], "kind": [".", ["kind"]]}
CfgRecords ==
    CfgExtract("records", <<"id">>,
               << [name |-> "items", mapping |-> ListElementMapping(InnerMapping)],
                  [name |-> "item", mapping |-> ListMapping],
                  [name |-> "kind", mapping |-> DictMapping(<<"kind">>)] >>,
               <<>>, <<>>)

\* {"kind": [".", ["kind"]], "other": ["?", ["kind"]]}
CfgBad ==
    CfgExtract("bad", <<"id">>,
               << [name |-> "kind", mapping |-> DictMapping(<<"kind">>)],
                  [name |-> "other", mapping |-> OtherMapping("?", <<"kind">>)] >>,
               <<>>, <<"keep_response">>)

\* {"item": ["*"], "other": ["?", ["kind"]]}
CfgLastBad ==
    CfgExtract("lastbad", <<"id">>,
               << [name |-> "item", mapping |-> ListMapping],
                  [name |-> "other", mapping |-> OtherMapping("?", <<"kind">>)] >>,
               <<>>, <<"keep_response">>)

\* "login" is read from the input file and is also an output parameter
CfgCheck ==
    CfgExtract("check", <<"id", "login">>,
               << [name |-> "login", mapping |-> DictMapping(<<"login">>)] >>,
               <<>>, <<>>)

\* post-request callbacks of one, two and three parameters
CfgArity ==
    CfgExtract("arity", <<"id", "code_block", "code_block_normalized">>,
               << [name |-> "kind", mapping |-> DictMapping(<<"kind">>)] >>,
               <<"rewrite_id", "validate_code_block_normalization">>,
               <<"validate_code_block_normalization", "keep_response",
                 "three_parameters", "validate_code_block_normalization">>)

\* a pre-request callback of three parameters
CfgArityPre ==
    CfgExtract("arity_pre", <<"id", "code_block", "code_block_normalized">>,
               << [name |-> "kind", mapping |-> DictMapping(<<"kind">>)] >>,
               <<"validate_code_block_normalization", "three_parameters",
                 "validate_code_block_normalization">>,
               <<"keep_response">>)

\* validate_code_block_normalization configured for entities that have no
\* input parameter "code_block"
CfgMissing ==
    CfgExtract("missing", <<"id">>,
               << [name |-> "kind", mapping |-> DictMapping(<<"kind">>)] >>,
               <<"rewrite_id", "validate_code_block_normalization", "rewrite_id">>,
               <<"keep_response">>)

OutputNames(cfg) ==
    [i \in 1..Len(cfg.output_parameter_mapping) |-> cfg.output_parameter_mapping[i].name]

(***************************************************************************)
(* Entity                                                                  *)
(***************************************************************************)
\* {**self.input_parameters, "api_key": self.configuration.api_key}, keyed by
\* the characters of each name
UriVariableValues(cfg, input_parameters) ==
    LET names == DOMAIN input_parameters \cup {"api_key"}
    IN  [c \in { NameChars[n] : n \in names } |->
            LET n == CHOOSE m \in names : NameChars[m] = c
            IN  IF n = "api_key" THEN cfg.api_key ELSE input_parameters[n]]

\* Entity.__init__: input_parameter_values is a dict; id is the identity of
\* the new object.  Raises when a configured parameter has no entry.
EntityInit(cfg, input_parameter_values, id) ==
    LET params  == Range(cfg.input_parameters)
        missing == { q \in params : q \notin DOMAIN input_parameter_values }
        inputs  == [q \in params |-> input_parameter_values[q]]
    IN  IF missing # {}
        THEN [raised |-> Raise("IllegalArgumentError", "Illegal input parameter")]
        ELSE [raised |-> NoError,
              entity |->
                [id |-> id,
                 input_parameters |-> inputs,
                 output_parameters |-> [n \in Range(OutputNames(cfg)) |-> JNull],
                 uri |-> replace_variables(cfg.uri_template,
                                           UriVariableValues(cfg, inputs)).uri]]

\* Entity.equals: every input parameter of self has an equal entry in other
EntityEquals(self, other_entity) ==
    \A parameter \in DOMAIN self.input_parameters :
        /\ parameter \in DOMAIN other_entity.input_parameters
        /\ self.input_parameters[parameter] = other_entity.input_parameters[parameter]

(***************************************************************************)
(* Entity._extract_output_parameters                                       *)
(***************************************************************************)
\* get_value_from_nested_dictionary(dictionary, access_path), from step i:
\* the keys are applied left to right as nested lookups; a missing key is
\* a KeyError, a lookup by key in a value that is no dict a TypeError
RECURSIVE get_value_from_nested_dictionary(_, _, _)
get_value_from_nested_dictionary(value, access_path, i) ==
    IF i > Len(access_path) THEN [err |-> "none", value |-> value]
    ELSE IF value.k # "obj" THEN [err |-> "TypeError", value |-> JNull]
    ELSE IF access_path[i] \notin DOMAIN value.f THEN [err |-> "KeyError", value |-> JNull]
    ELSE get_value_from_nested_dictionary(value.f[access_path[i]], access_path, i + 1)

\* "for element in value": the elements of a list, the keys of a dict, the
\* characters of a str; None is not iterable
Iterable(value) == value.k \in {"arr", "obj", "str"}

Elements(value) ==
    IF value.k = "arr" THEN value.e
    ELSE IF value.k = "obj" THEN [i \in 1..Len(value.ks) |-> [k |-> "key", name |-> value.ks[i]]]
    ELSE [i \in 1..Len(value.s) |-> JStr(<<value.s[i]>>)]

\* the dict built for one list element from list_element_mapping, a
\* sequence of [name, path]; a KeyError leaves None, a TypeError escapes
ListElementParameters(element, inner) ==
    LET got(j) == get_value_from_nested_dictionary(element, inner[j].path, 1)
        names  == [j \in 1..Len(inner) |-> inner[j].name]
    IN  IF \E j \in 1..Len(inner) : got(j).err = "TypeError"
        THEN [raised |-> Raise("TypeError", "list element"), value |-> JNull]
        ELSE [raised |-> NoError,
              value |->
                JObj(names,
                     [n \in Range(names) |->
                        LET j == CHOOSE h \in 1..Len(inner) :
                                    /\ inner[h].name = n
                                    /\ \A g \in 1..Len(inner) : inner[g].name = n => g <= h
                        IN  got(j).value])]

\* the loop over output_parameter_mapping from entry i on; out is
\* self.output_parameters so far.  Both list branches end in "return".
RECURSIVE ExtractFrom(_, _, _, _)
ExtractFrom(cfg, i, out, json_response) ==
    IF i > Len(cfg.output_parameter_mapping)
    THEN [raised |-> NoError, output_parameters |-> out]
    ELSE
      LET parameter == cfg.output_parameter_mapping[i].name
          mapping   == cfg.output_parameter_mapping[i].mapping
          set(v)    == [n \in DOMAIN out \cup {parameter} |-> IF n = parameter THEN v ELSE out[n]]
      IN
      IF mapping.first = "*" THEN
          IF mapping.len = 1 THEN
              IF ~Iterable(json_response)
              THEN [raised |-> Raise("TypeError", "not iterable"), output_parameters |-> out]
              ELSE LET elements == Elements(json_response)
                   IN  [raised |-> NoError,
                        output_parameters |->
                            IF Len(elements) = 0 THEN out
                            ELSE set(elements[Len(elements)])]
          ELSE IF mapping.len = 2 THEN
              IF ~Iterable(json_response)
              THEN [raised |-> Raise("TypeError", "not iterable"), output_parameters |-> out]
              ELSE LET elements == Elements(json_response)
                       made(j)  == ListElementParameters(elements[j], mapping.inner)
                   IN  IF \E j \in 1..Len(elements) : made(j).raised # NoError
                       THEN [raised |-> Raise("TypeError", "list element"),
                             output_parameters |-> out]
                       ELSE [raised |-> NoError,
                             output_parameters |->
                                set(JArr([j \in 1..Len(elements) |-> made(j).value]))]
          ELSE ExtractFrom(cfg, i + 1, out, json_response)
      ELSE IF mapping.first = "." THEN
          LET got == get_value_from_nested_dictionary(json_response, mapping.path, 1)
          IN  IF got.err = "TypeError"
              THEN [raised |-> Raise("TypeError", parameter), output_parameters |-> out]
              ELSE ExtractFrom(cfg, i + 1,
                               set(IF got.err = "KeyError" THEN JNull ELSE got.value),
                               json_response)
      ELSE [raised |-> Raise("IllegalConfigurationError",
                             "First element of output parameter mapping"),
            output_parameters |-> out]

extract_output_parameters(cfg, entity, json_response) ==
    ExtractFrom(cfg, 1, entity.output_parameters, json_response)

(***************************************************************************)
(* retriever/callbacks.py.  A callback applied to an entity gives          *)
(*   [raised, entity, ret]: the exception it raised (or NoError), the      *)
(*   entity as it leaves it, and the value it returned.                    *)
(***************************************************************************)
\* bool(value) for the values of the model
Truthy(value) ==
    \/ value.k = "str" /\ value.s # <<>>
    \/ value.k = "arr" /\ value.e # <<>>
    \/ value.k = "obj" /\ value.ks # <<>>
    \/ value.k \in {"key", "datetime"}

Whitespace == {" ", "\n"}

\* s.split("\n")
RECURSIVE SplitFrom(_, _, _)
SplitFrom(s, i, line) ==
    IF i > Len(s) THEN <<line>>
    ELSE IF s[i] = "\n" THEN <<line>> \o SplitFrom(s, i + 1, <<>>)
    ELSE SplitFrom(s, i + 1, Append(line, s[i]))

SplitLines(s) == SplitFrom(s, 1, <<>>)

\* s.strip()
RECURSIVE Strip(_)
Strip(s) ==
    IF s = <<>> THEN s
    ELSE IF s[1] \in Whitespace THEN Strip(Tail(s))
    ELSE IF s[Len(s)] \in Whitespace THEN Strip(SubSeq(s, 1, Len(s) - 1))
    ELSE s

\* needle in s, for two str
Contains(s, needle) ==
    \E i \in 1..(Len(s) - Len(needle) + 1) : SubSeq(s, i, i + Len(needle) - 1) = needle

\* dict.pop(key) and dict[key] = value on an entity's output parameters
PopOutput(entity, key) ==
    [entity EXCEPT !.output_parameters =
        [n \in DOMAIN entity.output_parameters \ {key} |-> entity.output_parameters[n]]]

SetOutput(entity, key, value) ==
    [entity EXCEPT !.output_parameters =
        [n \in DOMAIN entity.output_parameters \cup {key} |->
            IF n = key THEN value ELSE entity.output_parameters[n]]]

Returned(entity, ret) == [raised |-> NoError, entity |-> entity, ret |-> ret]
Raised(entity, kind, detail) ==
    [raised |-> Raise(kind, detail), entity |-> entity, ret |-> "None"]

\* validate_code_block_normalization: reads two input parameters and logs
\* the outcome of the comparison; a missing parameter is a configuration
\* error
validate_code_block_normalization(entity) ==
    IF "code_block" \notin DOMAIN entity.input_parameters
    THEN Raised(entity, "IllegalConfigurationError", "code_block")
    ELSE IF "code_block_normalized" \notin DOMAIN entity.input_parameters
    THEN Raised(entity, "IllegalConfigurationError", "code_block_normalized")
    ELSE Returned(entity, "None")

\* the lines of patch that start with "+" and whose rest, stripped, equals
\* the stripped input parameter "line"
PatchHasLine(patch, line) ==
    LET patch_lines == SplitLines(patch)
    IN  \E i \in 1..Len(patch_lines) :
            /\ patch_lines[i] # <<>>
            /\ patch_lines[i][1] = "+"
            /\ Strip(Tail(patch_lines[i])) = Strip(line)

\* normalize_java(get_added_lines(patch)) of retriever/callback_helpers.py:
\* the added lines of the patch, without their "+" and without blanks
RECURSIVE JoinAdded(_, _)
JoinAdded(patch_lines, i) ==
    IF i > Len(patch_lines) THEN <<>>
    ELSE IF patch_lines[i] # <<>> /\ patch_lines[i][1] = "+"
         THEN SelectSeq(Tail(patch_lines[i]), LAMBDA c : c \notin Whitespace)
              \o JoinAdded(patch_lines, i + 1)
         ELSE JoinAdded(patch_lines, i + 1)

NormalizedAddedLines(patch) == JoinAdded(SplitLines(patch), 1)

\* the loop of the two filter callbacks over entity.output_parameters
\* ["files"], from element j on; kind is "line" or "code_block"
RECURSIVE FilterFiles(_, _, _, _)
FilterFiles(entity, files, j, kind) ==
    IF j > Len(files) THEN Returned(entity, "False")
    ELSE
      LET file == files[j]
          inp  == entity.input_parameters
          key  == IF kind = "line" THEN "line" ELSE "code_block_normalized"
      IN
      IF file.k # "obj" THEN Raised(entity, "TypeError", "file")
      ELSE IF "filename" \notin DOMAIN file.f THEN Raised(entity, "KeyError", "filename")
      ELSE IF "path" \notin DOMAIN inp THEN Raised(entity, "KeyError", "path")
      ELSE IF file.f["filename"] # JStr(inp["path"]) THEN FilterFiles(entity, files, j + 1, kind)
      ELSE
        LET patch == IF "patch" \in DOMAIN file.f THEN file.f["patch"] ELSE JNull
        IN
        IF ~Truthy(patch) THEN FilterFiles(entity, files, j + 1, kind)
        ELSE IF patch.k # "str" THEN Raised(entity, "AttributeError", "patch")
        ELSE IF kind = "line" THEN
            IF \A i \in 1..Len(SplitLines(patch.s)) :
                    \/ SplitLines(patch.s)[i] = <<>>
                    \/ SplitLines(patch.s)[i][1] # "+"
            THEN FilterFiles(entity, files, j + 1, kind)
            ELSE IF key \notin DOMAIN inp THEN Raised(entity, "KeyError", key)
            ELSE IF PatchHasLine(patch.s, inp[key])
            THEN Returned(PopOutput(SetOutput(entity, "commit_diff", patch), "files"), "True")
            ELSE FilterFiles(entity, files, j + 1, kind)
        ELSE
            IF key \notin DOMAIN inp THEN Raised(entity, "KeyError", key)
            ELSE IF Contains(NormalizedAddedLines(patch.s), inp[key])
            THEN Returned(
                    PopOutput(
                        SetOutput(SetOutput(entity, "commit_diff", patch),
                                  "commit_diff_normalized",
                                  JStr(NormalizedAddedLines(patch.s))),
                        "files"),
                    "True")
            ELSE FilterFiles(entity, files, j + 1, kind)

FilterPatches(entity, kind) ==
    IF "files" \notin DOMAIN entity.output_parameters
    THEN Raised(entity, "KeyError", "files")
    ELSE IF ~Iterable(entity.output_parameters["files"])
    THEN Raised(entity, "TypeError", "files")
    ELSE FilterFiles(entity, Elements(entity.output_parameters["files"]), 1, kind)

filter_patches_with_code_block(entity) == FilterPatches(entity, "code_block")

filter_patches_with_line(entity) == FilterPatches(entity, "line")

\* A date is written day-then-separator: <<d, "T">> as the API sends it,
\* <<d, " ">> as str(datetime) prints it; dateutil's parser reads both.
DayOf == ("1" :> 1) @@ ("2" :> 2) @@ ("3" :> 3)

IsDateString(s) == Len(s) = 2 /\ s[1] \in DOMAIN DayOf /\ s[2] \in {"T", " "}

DateTime(t) == [k |-> "datetime", t |-> t]

\* str(datetime)
DateTimeStr(d) ==
    JStr(<<CHOOSE c \in DOMAIN DayOf : DayOf[c] = d.t, " ">>)

\* the first loop of sort_commits from commit j on: commit["commit_date"] =
\* parser.parse(commit["commit_date"]), in place
RECURSIVE ParseCommitDates(_, _)
ParseCommitDates(commits, j) ==
    IF j > Len(commits) THEN [raised |-> NoError, commits |-> commits]
    ELSE
      LET commit == commits[j]
      IN
      IF commit.k # "obj" THEN [raised |-> Raise("TypeError", "commit"), commits |-> commits]
      ELSE IF "commit_date" \notin DOMAIN commit.f
      THEN [raised |-> Raise("KeyError", "commit_date"), commits |-> commits]
      ELSE IF commit.f["commit_date"].k # "str"
      THEN [raised |-> Raise("TypeError", "commit_date"), commits |-> commits]
      ELSE IF ~IsDateString(commit.f["commit_date"].s)
      THEN [raised |-> Raise("ValueError", "commit_date"), commits |-> commits]
      ELSE ParseCommitDates(
              [commits EXCEPT ![j].f["commit_date"] =
                    DateTime(DayOf[commit.f["commit_date"].s[1]])],
              j + 1)

\* sorted(commits, key=commit_date): stable, oldest first
RECURSIVE InsertByDate(_, _)
InsertByDate(sorted, commit) ==
    IF sorted = <<>> THEN <<commit>>
    ELSE IF sorted[Len(sorted)].f["commit_date"].t <= commit.f["commit_date"].t
         THEN Append(sorted, commit)
         ELSE Append(InsertByDate(SubSeq(sorted, 1, Len(sorted) - 1), commit),
                     sorted[Len(sorted)])

RECURSIVE SortedByDate(_, _)
SortedByDate(commits, n) ==
    IF n = 0 THEN <<>> ELSE InsertByDate(SortedByDate(commits, n - 1), commits[n])

sort_commits(entity) ==
    IF "commits" \notin DOMAIN entity.output_parameters
    THEN Raised(entity, "KeyError", "commits")
    ELSE
      LET commits == entity.output_parameters["commits"]
      IN
      IF ~Truthy(commits) THEN Returned(entity, "None")
      ELSE IF commits.k # "arr" THEN Raised(entity, "TypeError", "commits")
      ELSE
        LET parsed == ParseCommitDates(commits.e, 1)
        IN
        IF parsed.raised # NoError
        THEN [raised |-> parsed.raised,
              entity |-> SetOutput(entity, "commits", JArr(parsed.commits)),
              ret |-> "None"]
        ELSE
          LET sorted == SortedByDate(parsed.commits, Len(parsed.commits))
          IN  Returned(
                SetOutput(entity, "commits",
                    JArr([j \in 1..Len(sorted) |->
                            [sorted[j] EXCEPT !.f["commit_date"] =
                                DateTimeStr(sorted[j].f["commit_date"])]])),
                "None")

\* author_email and "@" in author_email
IsEmail(author_email) ==
    /\ Truthy(author_email)
    /\ \/ author_email.k = "str" /\ Contains(author_email.s, <<"@">>)
       \/ author_email.k = "arr" /\ \E i \in 1..Len(author_email.e) :
                                        author_email.e[i] = JStr(<<"@">>)
       \/ author_email.k = "obj" /\ "@" \in DOMAIN author_email.f

\* the loop of extract_email_from_commits from commit j on
RECURSIVE FirstEmail(_, _, _)
FirstEmail(entity, commits, j) ==
    IF j > Len(commits) THEN [raised |-> NoError, entity |-> entity]
    ELSE IF commits[j].k # "obj"
    THEN [raised |-> Raise("TypeError", "commit"), entity |-> entity]
    ELSE IF "author_email" \notin DOMAIN commits[j].f
    THEN [raised |-> Raise("KeyError", "author_email"), entity |-> entity]
    ELSE IF IsEmail(commits[j].f["author_email"])
    THEN [raised |-> NoError,
          entity |-> SetOutput(entity, "author_email", commits[j].f["author_email"])]
    ELSE FirstEmail(entity, commits, j + 1)

extract_email_from_commits(entity) ==
    IF "commits" \notin DOMAIN entity.output_parameters
    THEN Raised(entity, "KeyError", "commits")
    ELSE
      LET commits == entity.output_parameters["commits"]
      IN
      IF ~Truthy(commits) THEN Returned(entity, "False")
      ELSE IF commits.k # "arr" THEN Raised(entity, "TypeError", "commits")
      ELSE
        LET found == FirstEmail(entity, commits.e, 1)
        IN
        IF found.raised # NoError
        THEN [raised |-> found.raised, entity |-> found.entity, ret |-> "None"]
        ELSE IF "author_email" \in DOMAIN found.entity.output_parameters
        THEN Returned(PopOutput(found.entity, "commits"), "True")
        ELSE Returned(PopOutput(found.entity, "commits"), "False")

\* set_destination_path reads entity.configuration.raw_parameter, an
\* attribute EntityConfiguration.__init__ never sets
set_destination_path(entity) == Raised(entity, "AttributeError", "raw_parameter")

\* Callbacks are looked up by name in retriever/callbacks.py, which a
\* deployment extends; three callbacks stand for such extensions:
\* rewrite_id(entity) assigns "0" to the input parameter "id",
\* keep_response(entity, json_response) stores the response it is given as
\* the output parameter "response" and returns True, and
\* three_parameters(entity, json_response, session) declares one parameter
\* more than any call passes.
rewrite_id(entity) ==
    Returned([entity EXCEPT !.input_parameters["id"] = <<"0">>], "None")

keep_response(entity, json_response) ==
    Returned(SetOutput(entity, "response", json_response), "True")

\* len(signature(callback).parameters): every callback of callbacks.py
\* declares the one parameter entity
ParameterCount(callback) ==
    CASE callback = "keep_response" -> 2
      [] callback = "three_parameters" -> 3
      [] OTHER -> 1

\* callback(self)
CallCallback(callback, entity) ==
    CASE callback = "validate_code_block_normalization" -> validate_code_block_normalization(entity)
      [] callback = "sort_commits" -> sort_commits(entity)
      [] callback = "filter_patches_with_code_block" -> filter_patches_with_code_block(entity)
      [] callback = "filter_patches_with_line" -> filter_patches_with_line(entity)
      [] callback = "set_destination_path" -> set_destination_path(entity)
      [] callback = "extract_email_from_commits" -> extract_email_from_commits(entity)
      [] callback = "rewrite_id" -> rewrite_id(entity)

\* callback(self, json_response)
CallCallbackWithResponse(callback, entity, json_response) ==
    CASE callback = "keep_response" -> keep_response(entity, json_response)

(***************************************************************************)
(* EntityList.read_from_csv                                                *)
(***************************************************************************)
\* input_parameter_indices after the header loop: the column of each
\* parameter, 0 for a parameter no column names (None in the code); raises
\* on a header of the wrong length or with an unknown name
HeaderIndices(cfg, header) ==
    LET params == Range(cfg.input_parameters)
    IN  IF Len(header) = 0
        THEN [raised |-> Raise("IllegalArgumentError", "Missing header in CSV file.")]
        ELSE IF Len(header) # Cardinality(params)
        THEN [raised |-> Raise("IllegalArgumentError", "Wrong number of columns in CSV file.")]
        ELSE IF \E i \in 1..Len(header) : header[i] \notin params
        THEN [raised |-> Raise("IllegalArgumentError", "Unknown column name in CSV file")]
        ELSE [raised |-> NoError,
              indices |->
                [q \in params |->
                    IF \E i \in 1..Len(header) : header[i] = q
                    THEN CHOOSE i \in 1..Len(header) :
                            /\ header[i] = q
                            /\ \A j \in 1..Len(header) : header[j] = q => j <= i
                    ELSE 0]]

\* None, the value dict.fromkeys gives every key; a cell value is never
\* stored empty
NoValue == <<>>

\* a faulty RowValues, where an empty cell is passed over and the
\* dictionary keeps the value it has for that parameter
RowValuesSkippingEmptyCells(cfg, indices, row, input_parameter_values) ==
    LET params == cfg.input_parameters
        bad(i) == \/ indices[params[i]] = 0
                  \/ indices[params[i]] > Len(row)
        firstBad == CHOOSE i \in 1..Len(params) :
                        bad(i) /\ \A j \in 1..(i - 1) : ~bad(j)
    IN  IF Len(row) = 0
        THEN [raised |-> Raise("IllegalArgumentError", "Wrong CSV format.")]
        ELSE IF \E i \in 1..Len(params) : bad(i)
        THEN [raised |->
                IF indices[params[firstBad]] = 0
                THEN Raise("TypeError", params[firstBad])
                ELSE Raise("IndexError", params[firstBad])]
        ELSE [raised |-> NoError,
              values |-> [q \in DOMAIN input_parameter_values |->
                            IF q \in Range(params) /\ row[indices[q]] # <<>>
                            THEN row[indices[q]]
                            ELSE input_parameter_values[q]]]

\* the dictionary input_parameter_values, which is made once per call and
\* used for every row, after the loop over the parameters has stored the
\* cells of one row in it, or the exception that loop raises: row[None] is
\* a TypeError, a short row an IndexError, an empty cell an
\* IllegalArgumentError (the parameters are visited in configured order)
RowValues(cfg, indices, row, input_parameter_values) ==
    LET params == cfg.input_parameters
        bad(i) == \/ indices[params[i]] = 0
                  \/ indices[params[i]] > Len(row)
                  \/ row[indices[params[i]]] = <<>>
        firstBad == CHOOSE i \in 1..Len(params) :
                        bad(i) /\ \A j \in 1..(i - 1) : ~bad(j)
    IN  IF Len(row) = 0
        THEN [raised |-> Raise("IllegalArgumentError", "Wrong CSV format.")]
        ELSE IF \E i \in 1..Len(params) : bad(i)
        THEN [raised |->
                IF indices[params[firstBad]] = 0
                THEN Raise("TypeError", params[firstBad])
                ELSE IF indices[params[firstBad]] > Len(row)
                THEN Raise("IndexError", params[firstBad])
                ELSE Raise("IllegalArgumentError", "No value for parameter")]
        ELSE [raised |-> NoError,
              values |-> [q \in DOMAIN input_parameter_values |->
                            IF q \in Range(params)
                            THEN row[indices[q]]
                            ELSE input_parameter_values[q]]]

\* a faulty AppendEntity, which appends without looking for an equal entity
AppendEntityAlways(cfg, entities, new_entity) == Append(entities, new_entity)

\* the duplicate check and the append for one new entity
AppendEntity(cfg, entities, new_entity) ==
    IF cfg.ignore_duplicates
    THEN IF \E i \in 1..Len(entities) : EntityEquals(new_entity, entities[i])
         THEN entities
         ELSE Append(entities, new_entity)
    ELSE Append(entities, new_entity)

\* the loop over the data rows k.. of the table; made holds the entities
\* constructed so far, and the next one gets the next identity;
\* input_parameter_values is the dictionary as the rows before k left it.
\* The list keeps what was appended before an exception.
RECURSIVE ReadRows(_, _, _, _, _, _, _)
ReadRows(cfg, indices, rows, k, entities, made, input_parameter_values) ==
    IF k > Len(rows) THEN [list |-> entities, made |-> made, raised |-> NoError]
    ELSE LET rv == RowValues(cfg, indices, rows[k], input_parameter_values)
         IN  IF rv.raised # NoError
             THEN [list |-> entities, made |-> made, raised |-> rv.raised]
             ELSE LET new == EntityInit(cfg, rv.values, Len(made) + 1)
                  IN  IF new.raised # NoError
                      THEN [list |-> entities, made |-> made, raised |-> new.raised]
                      ELSE ReadRows(cfg, indices, rows, k + 1,
                                    AppendEntity(cfg, entities, new.entity),
                                    Append(made, new.entity), rv.values)

\* read_from_csv on a file whose first line is header (<<>> for an empty
\* file) and whose other lines are rows
read_from_csv(cfg, entities, header, rows, made) ==
    LET hi == HeaderIndices(cfg, header)
    IN  IF hi.raised # NoError
        THEN [list |-> entities, made |-> made, raised |-> hi.raised]
        ELSE ReadRows(cfg, hi.indices, rows, 1, entities, made,
                      [q \in Range(cfg.input_parameters) |-> NoValue])

(***************************************************************************)
(* EntityList.write_to_csv                                                 *)
(***************************************************************************)
NoFile == [written |-> FALSE, header |-> <<>>, rows |-> <<>>, entities |-> <<>>]

\* a faulty ColumnNames, with the output-parameter names first
ColumnNamesOutputFirst(cfg) == OutputNames(cfg) \o cfg.input_parameters

ColumnNames(cfg) == cfg.input_parameters \o OutputNames(cfg)

\* the list "row" built for one entity: a cell for every column found in
\* the input parameters or else in the output parameters
RECURSIVE RowCells(_, _, _)
RowCells(entity, column_names, i) ==
    IF i > Len(column_names) THEN <<>>
    ELSE IF column_names[i] \in DOMAIN entity.input_parameters
    THEN <<JStr(entity.input_parameters[column_names[i]])>>
         \o RowCells(entity, column_names, i + 1)
    ELSE IF column_names[i] \in DOMAIN entity.output_parameters
    THEN <<entity.output_parameters[column_names[i]]>>
         \o RowCells(entity, column_names, i + 1)
    ELSE RowCells(entity, column_names, i + 1)

\* writer.writerow(row) hands the text of the row to the UTF-8 stream: a
\* str cell is written as it is, any other cell through str(), which
\* escapes what it cannot print
Encodable(row) ==
    \A i \in 1..Len(row) :
        row[i].k = "str" => \A j \in 1..Len(row[i].s) : row[i].s[j] # Surrogate

\* the loop over self.list from entity k on; file is what has been written
RECURSIVE WriteRows(_, _, _, _)
WriteRows(cfg, entities, k, file) ==
    IF k > Len(entities) THEN [file |-> file, raised |-> NoError]
    ELSE
      LET row == RowCells(entities[k], ColumnNames(cfg), 1)
      IN
      IF Len(row) # Len(ColumnNames(cfg))
      THEN [file |-> file,
            raised |-> Raise("IllegalArgumentError",
                             [entity |-> entities[k].input_parameters,
                              id |-> entities[k].id])]
      ELSE IF ~Encodable(row)
      THEN WriteRows(cfg, entities, k + 1, file)
      ELSE WriteRows(cfg, entities, k + 1,
                     [file EXCEPT !.rows = Append(@, row),
                                  !.entities = Append(@, entities[k].id)])

\* a faulty write_to_csv, whose except clause catches every exception
write_to_csv_catching_all(cfg, entities) ==
    LET w == WriteRows(cfg, entities, 1,
                       [written |-> TRUE, header |-> ColumnNames(cfg),
                        rows |-> <<>>, entities |-> <<>>])
    IN  [file |-> w.file, raised |-> NoError]

write_to_csv(cfg, entities) ==
    WriteRows(cfg, entities, 1,
              [written |-> TRUE, header |-> ColumnNames(cfg),
               rows |-> <<>>, entities |-> <<>>])

(***************************************************************************)
(* Entity.retrieve_data and EntityList.retrieve_data, statement by         *)
(* statement.  EntityList.retrieve_data is the loop over cur; the          *)
(* statements of Entity.retrieve_data for list[cur] are the values of      *)
(* step: "pre", "delay", "get", "extract", "post".                         *)
(***************************************************************************)
\* a faulty except clause, which also catches IllegalArgumentError
CaughtErrorsAndIllegalArgument ==
    {"gaierror", "ConnectionError", "MaxRetryError", "NewConnectionError",
     "IllegalArgumentError"}

\* a faulty except clause, which also catches IllegalConfigurationError
CaughtErrorsAndIllegalConfiguration ==
    {"gaierror", "ConnectionError", "MaxRetryError", "NewConnectionError",
     "IllegalConfigurationError"}

\* the exception classes of the except clause of Entity.retrieve_data
\* (ConnectionError is the built-in class: requests is imported as a module)
CaughtErrors == {"gaierror", "ConnectionError", "MaxRetryError", "NewConnectionError"}

NoResponse == [ok |-> FALSE, text |-> [wellformed |-> FALSE, json |-> JNull]]

\* arg is the JSON response a statement was given besides the entity (None
\* when it was given none)
Event(op, i, name, saw, left, ret) ==
    [entity |-> cur, op |-> op, i |-> i, name |-> name,
     saw |-> saw, left |-> left, ret |-> ret, arg |-> JNull]

ReturnEvent(ret) == Event("return", 0, "retrieve_data", list'[cur], list'[cur], ret)

\* a faulty FirstStep, which leaves out the pre-request callbacks
FirstStepWithoutCallbacks == "delay"

FirstStep == IF Len(configuration.pre_request_callbacks) > 0 THEN "pre" ELSE "delay"

\* go on with the next statement of Entity.retrieve_data
Continue(next_step, next_cb, event) ==
    /\ step' = next_step
    /\ cb' = next_cb
    /\ events' = Append(events, event)
    /\ UNCHANGED <<pc, error, cur, count>>

\* a faulty Return, where the loop takes the same entity again unless its
\* retrieve_data returned True
ReturnRetrying(ret, event) ==
    /\ count' = IF ret = "True" THEN count + 1 ELSE count
    /\ cur' = IF ret = "True" THEN cur + 1 ELSE cur
    /\ cb' = 1
    /\ events' = events \o <<event, ReturnEvent(ret)>>
    /\ IF ret = "True" /\ cur + 1 > Len(list)
       THEN pc' = "retrieved" /\ step' = "none"
       ELSE pc' = pc /\ step' = FirstStep
    /\ error' = error

\* Entity.retrieve_data returns ret ("True", "False", or "None" after a
\* caught exception): the loop of EntityList.retrieve_data counts it and
\* takes the next entity, or ends
Return(ret, event) ==
    /\ count' = IF ret = "True" THEN count + 1 ELSE count
    /\ cur' = cur + 1
    /\ cb' = 1
    /\ events' = events \o <<event, ReturnEvent(ret)>>
    /\ IF cur + 1 > Len(list)
       THEN pc' = "retrieved" /\ step' = "none"
       ELSE pc' = pc /\ step' = FirstStep
    /\ error' = error

\* an exception raised inside the try block: caught and logged when its
\* class is one of the except clause, else it leaves both retrieve_data
Throw(exception, event) ==
    IF exception.kind \in CaughtErrors
    THEN Return("None", event)
    ELSE /\ pc' = "raised"
         /\ error' = exception
         /\ events' = Append(events, event)
         /\ UNCHANGED <<cur, step, cb, count>>

\* EntityList.retrieve_data is entered
RetrieveData ==
    /\ pc = "loaded"
    /\ count' = 0
    /\ cur' = 1
    /\ cb' = 1
    /\ IF Len(list) = 0
       THEN pc' = "retrieved" /\ step' = "none"
       ELSE pc' = "retrieving" /\ step' = FirstStep
    /\ UNCHANGED <<configuration, list, error, constructed, reads, response, events,
                   csv_file, uriVars>>

\* one pass of the loop over pre_request_callbacks
PreRequestCallback ==
    /\ pc = "retrieving" /\ step = "pre"
    /\ LET callback == configuration.pre_request_callbacks[cb]
           entity   == list[cur]
           last     == cb = Len(configuration.pre_request_callbacks)
       IN  IF ParameterCount(callback) = 1
           THEN LET r  == CallCallback(callback, entity)
                    ev == Event("pre", cb, callback, entity, r.entity, r.ret)
                IN  /\ list' = [list EXCEPT ![cur] = r.entity]
                    /\ IF r.raised # NoError
                       THEN Throw(r.raised, ev)
                       ELSE Continue(IF last THEN "delay" ELSE "pre",
                                     IF last THEN 1 ELSE cb + 1, ev)
           ELSE /\ list' = list
                /\ Throw(Raise("IllegalArgumentError", "Invalid callback"),
                         Event("pre", cb, callback, entity, entity, "None"))
    /\ UNCHANGED <<configuration, constructed, reads, response, csv_file, uriVars>>

\* time.sleep(randint(delay_min, delay_max) / 1000)
Delay ==
    /\ pc = "retrieving" /\ step = "delay"
    /\ \E delay \in configuration.delay_min..configuration.delay_max :
          Continue("get", 1, Event("delay", delay, "sleep", list[cur], list[cur], "None"))
    /\ UNCHANGED <<configuration, list, constructed, reads, response, csv_file, uriVars>>

\* a faulty Get, which requests the URI that the template gives for the
\* input parameters as they are now
GetRecomputingUri(outcome) ==
    /\ pc = "retrieving" /\ step = "get"
    /\ list' = list
    /\ LET uri == replace_variables(
                      configuration.uri_template,
                      UriVariableValues(configuration, list[cur].input_parameters)).uri
           ev  == Event("get", 0, uri, list[cur], list[cur], outcome.kind)
       IN  IF outcome.kind = "exception"
           THEN response' = response /\ Throw(Raise(outcome.exception, "session.get"), ev)
           ELSE /\ response' = outcome.response
                /\ IF ~outcome.response.ok
                   THEN Return("False", ev)
                   ELSE Continue("extract", 1, ev)
    /\ UNCHANGED <<configuration, constructed, reads, csv_file, uriVars>>

\* response = session.get(self.uri), and the test of response.ok
Get(outcome) ==
    /\ pc = "retrieving" /\ step = "get"
    /\ list' = list
    /\ LET ev == Event("get", 0, list[cur].uri, list[cur], list[cur], outcome.kind)
       IN  IF outcome.kind = "exception"
           THEN response' = response /\ Throw(Raise(outcome.exception, "session.get"), ev)
           ELSE /\ response' = outcome.response
                /\ IF ~outcome.response.ok
                   THEN Return("False", ev)
                   ELSE Continue("extract", 1, ev)
    /\ UNCHANGED <<configuration, constructed, reads, csv_file, uriVars>>

\* json_response = json.loads(response.text), then
\* self._extract_output_parameters(json_response)
ExtractOutputParameters ==
    /\ pc = "retrieving" /\ step = "extract"
    /\ LET entity == list[cur]
       IN  IF ~response.text.wellformed
           THEN /\ list' = list
                /\ Throw(Raise("JSONDecodeError", "json.loads"),
                         Event("loads", 0, "json.loads", entity, entity, "None"))
           ELSE LET r    == extract_output_parameters(configuration, entity, response.text.json)
                    left == [entity EXCEPT !.output_parameters = r.output_parameters]
                    ev   == [Event("extract", 0, "_extract_output_parameters",
                                   entity, left, "None")
                             EXCEPT !.arg = response.text.json]
                IN  /\ list' = [list EXCEPT ![cur] = left]
                    /\ IF r.raised # NoError
                       THEN Throw(r.raised, ev)
                       ELSE IF Len(configuration.post_request_callbacks) = 0
                       THEN Return("True", ev)
                       ELSE Continue("post", 1, ev)
    /\ UNCHANGED <<configuration, constructed, reads, response, csv_file, uriVars>>

\* one pass of the loop over post_request_callbacks; the value the callback
\* returns is not used
PostRequestCallback ==
    /\ pc = "retrieving" /\ step = "post"
    /\ LET callback == configuration.post_request_callbacks[cb]
           entity   == list[cur]
           last     == cb = Len(configuration.post_request_callbacks)
       IN  IF ParameterCount(callback) \in {1, 2}
           THEN LET r  == IF ParameterCount(callback) = 1
                          THEN CallCallback(callback, entity)
                          ELSE CallCallbackWithResponse(callback, entity, response.text.json)
                    ev == [Event("post", cb, callback, entity, r.entity, r.ret)
                           EXCEPT !.arg = IF ParameterCount(callback) = 2
                                          THEN response.text.json ELSE JNull]
                IN  /\ list' = [list EXCEPT ![cur] = r.entity]
                    /\ IF r.raised # NoError
                       THEN Throw(r.raised, ev)
                       ELSE IF last
                       THEN Return("True", ev)
                       ELSE Continue("post", cb + 1, ev)
           ELSE /\ list' = list
                /\ Throw(Raise("IllegalArgumentError", "Invalid callback"),
                         Event("post", cb, callback, entity, entity, "None"))
    /\ UNCHANGED <<configuration, constructed, reads, response, csv_file, uriVars>>

\* EntityList.write_to_csv, after retrieve_data has returned
WriteToCsv ==
    /\ pc = "retrieved"
    /\ LET w == write_to_csv(configuration, list)
       IN  /\ csv_file' = w.file
           /\ error' = w.raised
           /\ pc' = IF w.raised # NoError THEN "raised" ELSE "exported"
    /\ UNCHANGED <<configuration, list, constructed, reads, retrieveVars, uriVars>>

\* EntityList.read_from_csv on a table [header, rows]
ReadFromCsv(table) ==
    /\ LET r == read_from_csv(configuration, list, table.header, table.rows, constructed)
       IN  /\ list' = r.list
           /\ constructed' = r.made
           /\ error' = r.raised
           /\ pc' = IF r.raised # NoError THEN "raised" ELSE "loaded"
    /\ reads' = Append(reads, table)
    /\ UNCHANGED <<configuration, retrieveVars, csv_file, uriVars>>

(***************************************************************************)
(* Inputs                                                                  *)
(***************************************************************************)
\* the segments URI templates are made of
Segments ==
    { <<"{", "a", "}">>, <<"{", "b", "}">>, <<"/">>, <<"{">>, <<"}">>, <<"a">> }

RECURSIVE Concats(_)
Concats(n) ==
    IF n = 0 THEN { <<>> }
    ELSE LET shorter == Concats(n - 1)
         IN  shorter \cup { s \o g : s \in shorter, g \in Segments }

Templates == Concats(MaxSegs)

VarNames == { <<"a">>, <<"b">> }

\* values a caller may supply: empty, plain, and text that looks like a
\* placeholder (an input cell may hold any non-empty text)
VarValues ==
    { <<>>, <<"x">>, <<"{", "b", "}">>, <<"x", "{", "a", "}">> }

Mappings ==
    UNION { [D -> VarValues] : D \in SUBSET VarNames }

SeqsUpTo(S, n) == UNION { [1..m -> S] : m \in 0..n }

\* the data rows an input file may hold, per configuration
RowChoices(cfg) ==
    CASE cfg.name = "users"   -> { << <<"1">> >>, << <<"2">> >> }
      [] cfg.name = "commits" -> { << <<"1">> >>, << <<"2">> >> }
      [] cfg.name = "files"   -> { << <<"p">>, <<"x">> >>, << <<"q">>, <<"x">> >> }
      [] cfg.name = "code"    -> { << <<"p">>, <<"x", " ">>, <<"x">> >>,
                                   << <<"q">>, <<"x", " ">>, <<"x">> >> }
      [] cfg.name = "check"   -> { << <<"1">>, <<"o">> >>, << <<"2">>, <<"x">> >> }
      [] cfg.name \in {"arity", "arity_pre"} ->
                                 { << <<"1">>, <<"x", " ">>, <<"x">> >>,
                                   << <<"2">>, <<"x", " ">>, <<"x">> >> }
      [] OTHER                -> { << <<"1">> >>, << <<"2">> >> }

\* well-formed input files of at most MaxRows data rows
MainTables(cfg) ==
    { [header |-> cfg.input_parameters, rows |-> rows] :
        rows \in SeqsUpTo(RowChoices(cfg), MaxRows) }

FileObject(filename, patch) ==
    JObj(<<"filename", "patch">>, [filename |-> JStr(filename), patch |-> JStr(patch)])

Commit(date, email) ==
    JObj(<<"date", "email">>, [date |-> JStr(date), email |-> JStr(email)])

\* {"owner": {"login": login}, "kind": kind}
User(login, kind) ==
    JObj(<<"owner", "kind">>,
         [owner |-> JObj(<<"login">>, [login |-> JStr(login)]), kind |-> JStr(kind)])

\* {"a": a, "b": {"c": c}}
Item(a, c) ==
    JObj(<<"a", "b">>, [a |-> JStr(a), b |-> JObj(<<"c">>, [c |-> JStr(c)])])

\* the JSON documents the API may answer with, per configuration
Bodies(cfg) ==
    CASE cfg.name = "users" ->
            { JObj(<<"login">>, [login |-> JStr(<<"o">>)]),
              JObj(<<"login">>, [login |-> JStr(<<Surrogate>>)]),
              JObj(<<>>, <<>>) }
      [] cfg.name \in {"files", "code"} ->
            { JObj(<<"files">>, [files |-> JArr(<< FileObject(<<"p">>, <<"-", "y", "\n", "+", " ", "x">>) >>)]),
              JObj(<<"files">>, [files |-> JArr(<< FileObject(<<"p">>, <<"-", "x">>) >>)]),
              JObj(<<"files">>,
                   [files |-> JArr(<< JObj(<<"filename">>, [filename |-> JStr(<<"p">>)]) >>)]),
              JObj(<<>>, <<>>) }
      [] cfg.name = "commits" ->
            { JArr(<<>>),
              JArr(<< Commit(<<"2", "T">>, <<"a", "@">>), Commit(<<"1", "T">>, <<"b", "@">>) >>),
              JArr(<< Commit(<<"1", "T">>, <<"x">>) >>) }
      [] cfg.name = "pair" ->
            { User(<<"o">>, <<"u">>),
              JObj(<<"owner", "kind">>, [owner |-> JObj(<<>>, <<>>), kind |-> JStr(<<"u">>)]),
              JObj(<<"kind">>, [kind |-> JStr(<<"u">>)]),
              JObj(<<"owner">>, [owner |-> JObj(<<"login">>, [login |-> JStr(<<"o">>)])]),
              JObj(<<"owner", "kind">>, [owner |-> JNull, kind |-> JStr(<<"u">>)]) }
      [] cfg.name \in {"last", "lastbad"} ->
            { JArr(<<>>),
              JArr(<< JStr(<<"s">>) >>),
              JArr(<< Item(<<"1">>, <<"2">>), JObj(<<"kind">>, [kind |-> JStr(<<"u">>)]) >>),
              JObj(<<"kind">>, [kind |-> JStr(<<"u">>)]) }
      [] cfg.name = "records" ->
            { JArr(<<>>),
              JArr(<< Item(<<"1">>, <<"2">>) >>),
              JArr(<< Item(<<"1">>, <<"2">>), JObj(<<"a">>, [a |-> JStr(<<"3">>)]),
                      JObj(<<"b">>, [b |-> JObj(<<>>, <<>>)]) >>),
              JArr(<< Item(<<"1">>, <<"2">>), JStr(<<"s">>) >>) }
      [] cfg.name = "check" ->
            { JObj(<<"login">>, [login |-> JStr(<<"o">>)]),
              JObj(<<"login">>, [login |-> JNull]),
              JObj(<<>>, <<>>) }
      [] cfg.name \in {"bad", "arity", "arity_pre", "missing"} ->
            { JObj(<<"kind">>, [kind |-> JStr(<<"u">>)]), JObj(<<>>, <<>>) }

\* the exceptions session.get may raise: requests wraps the failures of the
\* layers below in requests.exceptions.ConnectionError, an IOError that is
\* not a built-in ConnectionError
TransportErrors ==
    {"gaierror", "NewConnectionError", "requests.exceptions.ConnectionError"}

HttpOutcomes(cfg) ==
    { [kind |-> "exception", exception |-> e, response |-> NoResponse] : e \in TransportErrors }
    \cup { [kind |-> "status", exception |-> "none", response |-> NoResponse] }
    \cup { [kind |-> "ok", exception |-> "none",
            response |-> [ok |-> TRUE, text |-> [wellformed |-> FALSE, json |-> JNull]]] }
    \cup { [kind |-> "ok", exception |-> "none",
            response |-> [ok |-> TRUE, text |-> [wellformed |-> TRUE, json |-> b]]] :
           b \in Bodies(cfg) }

\* input files for read_from_csv alone: headers in and out of order, with
\* an unknown, a repeated and a missing column; rows that repeat, rows with
\* an empty cell, a short row and an empty row
LoadHeaders ==
    { <<"path", "line">>, <<"line", "path">>, <<"path", "path">>,
      <<"path", "id">>, <<"path">>, <<>> }

LoadRowSeqs ==
    LET px == << <<"p">>, <<"x">> >>
        xp == << <<"x">>, <<"p">> >>
        py == << <<"p">>, <<"y">> >>
    IN  { <<>>, <<px>>, <<px, px>>, <<px, py, px>>, <<py, xp>>,
          <<xp, << <<"p">>, <<>> >> >>, <<px, << <<"p">> >>, py>>, <<py, <<>>, px>> }

LoadTables == { [header |-> h, rows |-> r] : h \in LoadHeaders, r \in LoadRowSeqs }

(***************************************************************************)
(* Specifications                                                          *)
(***************************************************************************)
NoResult == [raised |-> FALSE, uri |-> <<>>]

\* no replace_variables call is under study
UriIdle ==
    /\ uri_template_str = <<>>
    /\ variable_values = <<>>
    /\ uriResult = NoResult
    /\ uriPc = "idle"

\* an EntityList after EntityList.__init__
ListInit(cfg) ==
    /\ configuration = cfg
    /\ list = <<>>
    /\ pc = "start"
    /\ error = NoError
    /\ constructed = <<>>
    /\ reads = <<>>
    /\ cur = 0
    /\ step = "none"
    /\ cb = 1
    /\ response = NoResponse
    /\ count = 0
    /\ events = <<>>
    /\ csv_file = NoFile

\* -- the program: read_from_csv, retrieve_data, write_to_csv
Configurations ==
    { CfgUsers(FALSE), CfgFiles(FALSE), CfgCode(FALSE), CfgCommits(TRUE) }

Init ==
    /\ UriIdle
    /\ \E cfg \in Configurations : ListInit(cfg)

Load ==
    /\ pc = "start"
    /\ \E table \in MainTables(configuration) : ReadFromCsv(table)

HttpGet == \E outcome \in HttpOutcomes(configuration) : Get(outcome)

Next ==
    \/ Load
    \/ RetrieveData
    \/ PreRequestCallback
    \/ Delay
    \/ HttpGet
    \/ ExtractOutputParameters
    \/ PostRequestCallback
    \/ WriteToCsv

Spec == Init /\ [][Next]_vars

\* -- read_from_csv called again and again on one EntityList
LoadConfigurations == { CfgFiles(TRUE), CfgFiles(FALSE) }

InitLoad ==
    /\ UriIdle
    /\ \E cfg \in LoadConfigurations : ListInit(cfg)

LoadMore ==
    /\ Len(reads) < MaxReads
    /\ \E table \in LoadTables : ReadFromCsv(table)

NextLoad == LoadMore

SpecLoad == InitLoad /\ [][NextLoad]_vars

\* -- the program under configurations that exercise every kind of output
\* parameter mapping and callbacks of one, two and three parameters
ExtractConfigurations ==
    { CfgPair, CfgLast, CfgRecords, CfgBad, CfgLastBad, CfgCheck, CfgArity, CfgArityPre,
      CfgMissing }

InitExtract ==
    /\ UriIdle
    /\ \E cfg \in ExtractConfigurations : ListInit(cfg)

SpecExtract == InitExtract /\ [][Next]_vars

\* -- one call of URITemplate.replace_variables
InitURI ==
    /\ uri_template_str \in Templates
    /\ variable_values \in Mappings
    /\ uriResult = NoResult
    /\ uriPc = "call"
    /\ ListInit(CfgUsers(FALSE))

ReplaceVariables ==
    /\ uriPc = "call"
    /\ uriResult' = replace_variables(uri_template_str, variable_values)
    /\ uriPc' = IF uriResult'.raised THEN "raised" ELSE "returned"
    /\ UNCHANGED <<uri_template_str, variable_values, listVars, retrieveVars, csv_file>>

NextURI == ReplaceVariables

SpecURI == InitURI /\ [][NextURI]_vars

(***************************************************************************)
(* Claims about URITemplate.replace_variables (specification SpecURI)      *)
(***************************************************************************)
\* the variables the scan discovers in the template of the call
DiscoveredVariables ==
    { FindAll(uri_template_str)[k] : k \in 1..Len(FindAll(uri_template_str)) }

\* the template with every {name} token replaced, in one left-to-right
\* pass, by the value the mapping gives for name
RECURSIVE SubstituteFrom(_, _, _)
SubstituteFrom(s, i, values) ==
    IF i > Len(s) THEN <<>>
    ELSE IF s[i] = "{"
         THEN LET j == WordRunEnd(s, i + 1)
              IN  IF j > i + 1 /\ j <= Len(s) /\ s[j] = "}"
                  THEN values[SubSeq(s, i + 1, j - 1)] \o SubstituteFrom(s, j + 1, values)
                  ELSE <<s[i]>> \o SubstituteFrom(s, i + 1, values)
         ELSE <<s[i]>> \o SubstituteFrom(s, i + 1, values)

\* C9: when every placeholder of the template has a non-empty value in the
\* mapping, the returned URI is the template with each occurrence of each
\* placeholder replaced by exactly that value; a template without
\* placeholders is returned unchanged.
C9_EveryPlaceholderReplacedByItsValue ==
    (/\ uriPc # "call"
     /\ \A v \in DiscoveredVariables : HasValue(variable_values, v))
    => /\ uriPc = "returned"
       /\ uriResult.uri = SubstituteFrom(uri_template_str, 1, variable_values)

\* C10: when a placeholder discovered in the template is absent from the
\* mapping, or empty in it, the call signals an illegal argument instead of
\* returning a URI.
C10_MissingVariableIsSignalled ==
    (/\ uriPc # "call"
     /\ \E v \in DiscoveredVariables : ~HasValue(variable_values, v))
    => uriPc = "raised"

(***************************************************************************)
(* Claims about retrieval and export (specification Spec)                  *)
(***************************************************************************)
EventsOf(i) == SelectSeq(events, LAMBDA ev : ev.entity = i /\ ev.op # "return")

\* Entity.retrieve_data of entity i has returned ret
HasReturned(i, ret) ==
    \E k \in 1..Len(events) :
        events[k].entity = i /\ events[k].op = "return" /\ events[k].ret = ret

\* the retrieval of entity i succeeded: the response was ok, was decoded
\* and extracted, and every post-request callback came back
Succeeded(i) == HasReturned(i, "True")

\* the retrieval of entity i failed: a response that is not ok, or a
\* logged network error
Failed(i) == HasReturned(i, "False") \/ HasReturned(i, "None")

\* some post-request callback returned False for entity i
PostReturnedFalse(i) ==
    \E k \in 1..Len(events) :
        events[k].entity = i /\ events[k].op = "post" /\ events[k].ret = "False"

\* entity i is to be exported
Retained(i) == Succeeded(i) /\ ~PostReturnedFalse(i)

\* the rows of the output table written for entity i
RowsFor(i) == { k \in 1..Len(csv_file.rows) : csv_file.entities[k] = list[i].id }

\* C1: an entity whose retrieval succeeded and for which some post-request
\* callback returned False has no row in the output table.
C1_ExcludedEntityHasNoRow ==
    csv_file.written =>
        \A i \in 1..Len(list) :
            (Succeeded(i) /\ PostReturnedFalse(i)) => RowsFor(i) = {}

\* C2: an entity whose retrieval failed has no row in the output table
\* written after retrieve_data.
C2_FailedEntityHasNoRow ==
    csv_file.written =>
        \A i \in 1..Len(list) : Failed(i) => RowsFor(i) = {}

\* an exception left Entity.retrieve_data, and so EntityList.retrieve_data
RetrievalAborted == pc = "raised" /\ step # "none"

\* what step "get" and json.loads can fail with
TransportFailures == TransportErrors \cup {"JSONDecodeError"}

\* C3: a transport failure of one entity (a status that is not ok, a body
\* that is no JSON, a network error) never aborts EntityList.retrieve_data,
\* and when retrieve_data has returned every entity of the list has had
\* its own request.
C3_TransportFailureIsPerEntity ==
    /\ ~(RetrievalAborted /\ error.kind \in TransportFailures)
    /\ pc \in {"retrieved", "exported"} =>
          \A i \in 1..Len(list) :
              \E k \in 1..Len(events) : events[k].entity = i /\ events[k].op = "get"

\* the statements of one Entity.retrieve_data call, in the order of the code
StatementOrder ==
    [k \in 1..Len(configuration.pre_request_callbacks) |->
        [op |-> "pre", i |-> k, name |-> configuration.pre_request_callbacks[k]]]
    \o << [op |-> "delay", i |-> 0, name |-> "sleep"],
          [op |-> "get", i |-> 0, name |-> "session.get"],
          [op |-> "extract", i |-> 0, name |-> "_extract_output_parameters"] >>
    \o [k \in 1..Len(configuration.post_request_callbacks) |->
        [op |-> "post", i |-> k, name |-> configuration.post_request_callbacks[k]]]

\* event ev is statement st (json.loads failing stands where the
\* extraction would have been)
IsStatement(ev, st) ==
    /\ (IF ev.op = "loads" THEN "extract" ELSE ev.op) = st.op
    /\ st.op \in {"pre", "post"} => ev.i = st.i /\ ev.name = st.name

\* C4: within one Entity.retrieve_data call the steps happen in the order
\* pre-request callbacks (as configured), delay, GET, extraction,
\* post-request callbacks (as configured), each once, and each step finds
\* the entity as the step before it left it.
C4_StepsInFixedOrder ==
    \A i \in 1..Len(list) :
        LET es == EventsOf(i)
        IN  /\ Len(es) <= Len(StatementOrder)
            /\ \A k \in 1..Len(es) :
                  /\ IsStatement(es[k], StatementOrder[k])
                  /\ k > 1 => es[k].saw = es[k - 1].left
            /\ es # <<>> => /\ es[1].saw = constructed[list[i].id]
                            /\ list[i] = es[Len(es)].left

\* C4 witness: an entity went through two pre-request callbacks, the delay,
\* the GET, the extraction and a post-request callback that found what the
\* extraction had stored and changed it.
C4_Witness ==
    \E i \in 1..Len(list) :
        LET es == EventsOf(i)
        IN  /\ Succeeded(i)
            /\ Len(es) = Len(StatementOrder)
            /\ Len(configuration.pre_request_callbacks) = 2
            /\ \E k \in 2..Len(es) :
                  /\ es[k].op = "post"
                  /\ es[k - 1].op = "extract"
                  /\ es[k - 1].left # es[k - 1].saw
                  /\ es[k].left # es[k].saw

\* C5: EntityList.retrieve_data takes the entities one after another in
\* list order, each lifecycle ending before the next begins, with at most
\* one GET per entity: a failed request is not repeated.
C5_SequentialAndNoRetry ==
    /\ \A k, l \in 1..Len(events) :
          k < l => /\ events[k].entity <= events[l].entity
                   /\ events[k].op = "return" => events[k].entity < events[l].entity
    /\ \A i \in 1..Len(list) :
          /\ Cardinality({ k \in 1..Len(events) :
                             events[k].entity = i /\ events[k].op = "get" }) <= 1
          /\ Cardinality({ k \in 1..Len(events) :
                             events[k].entity = i /\ events[k].op = "return" }) <= 1
    /\ pc \in {"retrieved", "exported"} =>
          \A i \in 1..Len(list) : Succeeded(i) \/ Failed(i)

\* C5 witness: the first entity's request failed, and the second entity
\* then had its own request.
C5_Witness ==
    /\ pc = "retrieved"
    /\ Len(list) >= 2
    /\ Failed(1)
    /\ \E k \in 1..Len(events) : events[k].entity = 2 /\ events[k].op = "get"

\* the cell of entity e for column c: its input parameter, or else its
\* output parameter
CellOf(e, c) ==
    IF c \in DOMAIN e.input_parameters
    THEN JStr(e.input_parameters[c])
    ELSE e.output_parameters[c]

HasColumn(e, c) == c \in DOMAIN e.input_parameters \/ c \in DOMAIN e.output_parameters

\* the columns of the output table
Columns == configuration.input_parameters \o OutputNames(configuration)

\* the entities that lack an entry for some column
Incomplete == { i \in 1..Len(list) : \E j \in 1..Len(Columns) : ~HasColumn(list[i], Columns[j]) }

\* row k of the output table is the row of the entity it was written for
RowIsEntity(k) ==
    \E i \in 1..Len(list) :
        /\ list[i].id = csv_file.entities[k]
        /\ Len(csv_file.rows[k]) = Len(Columns)
        /\ \A j \in 1..Len(Columns) : csv_file.rows[k][j] = CellOf(list[i], Columns[j])

HeaderAndRowsAreRight ==
    /\ csv_file.header = Columns
    /\ \A k \in 1..Len(csv_file.rows) : RowIsEntity(k)
    /\ \A k, l \in 1..Len(csv_file.rows) :
          k < l => csv_file.entities[k] < csv_file.entities[l]

\* C7, as stated: the header is the input-parameter names followed by the
\* output-parameter names, and every retained entity has exactly one row,
\* in insertion order, holding its value for each column.
C7_EveryRetainedEntityHasItsRow ==
    csv_file.written =>
        /\ HeaderAndRowsAreRight
        /\ \A i \in 1..Len(list) : Retained(i) => Cardinality(RowsFor(i)) = 1

\* the text of entity i's row can be written to the UTF-8 stream
RowEncodable(i) ==
    \A j \in 1..Len(Columns) :
        LET cell == CellOf(list[i], Columns[j])
        IN  cell.k = "str" => \A h \in 1..Len(cell.s) : cell.s[h] # Surrogate

\* C7, amended: the header is the input-parameter names followed by the
\* output-parameter names; every row is the row of one entity, holding its
\* value for each column, and the rows are in insertion order; every
\* retained entity has exactly one row, unless write_to_csv raised for a
\* missing column at that entity or at one before it, or the entity's row
\* cannot be encoded.
C7_RetainedEntityHasItsRowUnlessSkipped ==
    csv_file.written =>
        /\ HeaderAndRowsAreRight
        /\ \A i \in 1..Len(list) :
              Retained(i) =>
                  \/ Cardinality(RowsFor(i)) = 1
                  \/ \E h \in Incomplete : h <= i
                  \/ ~RowEncodable(i)

\* C7 witness: two retained entities were exported, each with its row.
C7_Witness ==
    /\ pc = "exported"
    /\ Len(list) >= 2
    /\ \A i \in 1..Len(list) : Retained(i) /\ Cardinality(RowsFor(i)) = 1
    /\ list[1].input_parameters # list[2].input_parameters

\* C8: when write_to_csv reaches an entity that has no entry for some
\* column, it raises an error naming that entity and writes no row for it
\* (nor after it); the error is not swallowed.
C8_MissingColumnIsFatal ==
    (csv_file.written /\ Incomplete # {}) =>
        LET first == CHOOSE i \in Incomplete : \A h \in Incomplete : i <= h
        IN  /\ pc = "raised"
            /\ error.kind = "IllegalArgumentError"
            /\ error.detail.id = list[first].id
            /\ error.detail.entity = list[first].input_parameters
            /\ \A i \in first..Len(list) : RowsFor(i) = {}

\* C8 witness: the first entity was written, the second lacks the column a
\* post-request callback removed, and write_to_csv raised.
C8_Witness ==
    /\ csv_file.written
    /\ Len(list) >= 2
    /\ Incomplete = {2}
    /\ RowsFor(1) # {}
    /\ Succeeded(2)

\* the orders in which the distinct variables of S can be taken
Orders(S) ==
    { q \in [1..Cardinality(S) -> S] :
        \A i, j \in 1..Cardinality(S) : i # j => q[i] # q[j] }

\* C20: the URI replace_variables returns is the URI obtained by
\* substituting the distinct variables of the template one after another in
\* any order, also when a value contains the placeholder of another
\* variable.
C20_ReplacementIsOrderIndependent ==
    uriPc = "returned" =>
        \A order \in Orders(DiscoveredVariables) :
            ReplaceLoop(uri_template_str, order, 1, variable_values) = uriResult.uri

(***************************************************************************)
(* Claims about read_from_csv (specification SpecLoad)                     *)
(***************************************************************************)
SameInputs(e, f) ==
    \A q \in Range(configuration.input_parameters) :
        e.input_parameters[q] = f.input_parameters[q]

\* C6: with ignore_duplicates set, after any sequence of read_from_csv
\* calls no two entities of the list agree on every input parameter; every
\* row that was read is represented by exactly one entity, the first one
\* constructed with its values; and the entities kept are in the order of
\* their rows.
C6_NoDuplicatesFirstKept ==
    configuration.ignore_duplicates =>
        /\ \A i, j \in 1..Len(list) : i < j => ~SameInputs(list[i], list[j])
        /\ \A c \in 1..Len(constructed) :
              \E i \in 1..Len(list) :
                  /\ SameInputs(list[i], constructed[c])
                  /\ list[i].id <= c
                  /\ list[i] = constructed[list[i].id]
                  /\ \A d \in 1..(list[i].id - 1) :
                        ~SameInputs(constructed[d], constructed[c])
        /\ \A i, j \in 1..Len(list) : i < j => list[i].id < list[j].id

\* C6 witness: rows were repeated within one file and across two files, and
\* the list holds two entities, fewer than were constructed.
C6_Witness ==
    /\ configuration.ignore_duplicates
    /\ Len(reads) = 2
    /\ Len(list) = 2
    /\ Len(constructed) >= 4
    /\ \E c \in 1..Len(constructed) :
          /\ \A i \in 1..Len(list) : list[i].id # c
          /\ ~SameInputs(constructed[c], list[Len(list)])

\* the input file of the latest read_from_csv call
LastRead == reads[Len(reads)]

\* the header names every configured input parameter exactly once, in some
\* order, and nothing else
NamesEachParameterOnce(header) ==
    /\ Len(header) = Len(configuration.input_parameters)
    /\ \A q \in Range(configuration.input_parameters) :
          Cardinality({ i \in 1..Len(header) : header[i] = q }) = 1

\* the messages of the three header checks of read_from_csv
HeaderErrors ==
    { "Missing header in CSV file.", "Wrong number of columns in CSV file.",
      "Unknown column name in CSV file" }

HeaderRejected ==
    /\ pc = "raised"
    /\ error.kind = "IllegalArgumentError"
    /\ error.detail \in HeaderErrors

\* C16: read_from_csv accepts the header of a file if and only if it names
\* every configured input parameter exactly once, in some order; a header
\* with an unknown, a missing or a repeated column ends the call with an
\* error, with or without data rows, and adds no entity to the list.
C16_HeaderAcceptedIffNamesEachParameterOnce ==
    reads # <<>> =>
        /\ NamesEachParameterOnce(LastRead.header) => ~HeaderRejected
        /\ ~NamesEachParameterOnce(LastRead.header) =>
              /\ pc = "raised"
              /\ Len(reads) = 1 => list = <<>>

\* the column of parameter q in a header that names it once
ColumnOf(header, q) == CHOOSE i \in 1..Len(header) : header[i] = q

\* the row has a non-empty cell in the column of every input parameter
RowIsComplete(header, row) ==
    \A q \in Range(configuration.input_parameters) :
        /\ ColumnOf(header, q) <= Len(row)
        /\ row[ColumnOf(header, q)] # <<>>

\* the input parameters the row gives under the header
InputsOfRow(header, row) ==
    [q \in Range(configuration.input_parameters) |-> row[ColumnOf(header, q)]]

\* the input parameters of the rows of a file that an entity is created
\* from, in order: the rows before the first one that ends the call
RECURSIVE InputsOfRows(_, _, _)
InputsOfRows(header, rows, k) ==
    IF k > Len(rows) \/ ~RowIsComplete(header, rows[k]) THEN <<>>
    ELSE <<InputsOfRow(header, rows[k])>> \o InputsOfRows(header, rows, k + 1)

\* the same for the first n files read
RECURSIVE InputsOfReads(_)
InputsOfReads(n) ==
    IF n = 0 THEN <<>>
    ELSE InputsOfReads(n - 1) \o
         (IF NamesEachParameterOnce(reads[n].header)
          THEN InputsOfRows(reads[n].header, reads[n].rows, 1)
          ELSE <<>>)

\* C22: the entities created by read_from_csv do not share input state:
\* the entity created from a row holds the values of that row as its input
\* parameters and the URI of the template for those values, whatever rows
\* were read after it, and the entities of the list are as they were
\* created.
C22_EntitiesHoldTheirOwnRow ==
    /\ Len(constructed) = Len(InputsOfReads(Len(reads)))
    /\ \A c \in 1..Len(constructed) :
          /\ constructed[c].input_parameters = InputsOfReads(Len(reads))[c]
          /\ constructed[c].uri =
                replace_variables(
                    configuration.uri_template,
                    UriVariableValues(configuration, InputsOfReads(Len(reads))[c])).uri
    /\ \A i \in 1..Len(list) : list[i] = constructed[list[i].id]

\* C22 witness: one file of three rows was loaded, the rows differ in an
\* input parameter that occurs in the URI template, and the list holds the
\* entity of every row.
C22_Witness ==
    /\ pc = "loaded"
    /\ Len(reads) = 1
    /\ Len(LastRead.rows) = 3
    /\ Len(list) = 3
    /\ list[1].input_parameters # list[2].input_parameters
    /\ list[1].input_parameters = list[3].input_parameters
    /\ list[1].uri # list[2].uri

(***************************************************************************)
(* Claims about Entity._extract_output_parameters and the callbacks        *)
(* (specification SpecExtract)                                             *)
(***************************************************************************)
\* the positions in events of the calls of _extract_output_parameters
ExtractEvents == { k \in 1..Len(events) : events[k].op = "extract" }

\* the call logged at position k was left by an exception
ExtractRaised(k) == RetrievalAborted /\ k = Len(events)

\* the output parameters in the order of their declaration
Declared == configuration.output_parameter_mapping

\* the value of the i-th declared parameter after and before the call
Stored(k, i) == events[k].left.output_parameters[Declared[i].name]
Before(k, i) == events[k].saw.output_parameters[Declared[i].name]

\* the keys of path applied to value as nested lookups, from the first key
PathValue(value, path) == get_value_from_nested_dictionary(value, path, 1)

IsDictMapping(i) == Declared[i].mapping.first = "."
IsListMapping(i) == Declared[i].mapping.first = "*" /\ Declared[i].mapping.len = 1
IsListElementMapping(i) == Declared[i].mapping.first = "*" /\ Declared[i].mapping.len = 2

\* every dictionary path of the configuration can be followed in value as
\* far as its keys exist: no step looks a key up in a value that is no object
PathsMeetObjects(value) ==
    \A i \in 1..Len(Declared) :
        IsDictMapping(i) => PathValue(value, Declared[i].mapping.path).err # "TypeError"

\* C11: a parameter mapped with [".", steps] is stored as the value the
\* steps reach in the response; when a key of the path is missing the
\* parameter is None, no error is raised for it, and the other parameters
\* get the values of their own paths.
C11_DictionaryPathExtraction ==
    \A k \in ExtractEvents :
        PathsMeetObjects(events[k].arg) =>
            \A i \in 1..Len(Declared) :
                IsDictMapping(i) =>
                    LET got == PathValue(events[k].arg, Declared[i].mapping.path)
                    IN  /\ (got.err = "none" /\ ~ExtractRaised(k)) => Stored(k, i) = got.value
                        /\ got.err = "KeyError" =>
                              /\ Stored(k, i) = JNull
                              /\ ExtractRaised(k) => error.kind # "KeyError"

\* value is an array of objects in which every path of inner can be
\* followed as far as its keys exist
ArrayOfObjects(value, inner) ==
    /\ value.k = "arr"
    /\ \A j \in 1..Len(value.e) :
          /\ value.e[j].k = "obj"
          /\ \A m \in 1..Len(inner) : PathValue(value.e[j], inner[m].path).err # "TypeError"

\* record is the dict with exactly the names of inner as keys, each holding
\* what its path yields in element (None when a key is missing)
IsRecordOf(record, element, inner) ==
    /\ record.k = "obj"
    /\ record.ks = [m \in 1..Len(inner) |-> inner[m].name]
    /\ DOMAIN record.f = { inner[m].name : m \in 1..Len(inner) }
    /\ \A m \in 1..Len(inner) :
          LET got == PathValue(element, inner[m].path)
          IN  record.f[inner[m].name] = IF got.err = "none" THEN got.value ELSE JNull

\* C12: for a response that is an array of N objects, a parameter mapped
\* with ["*", inner] is stored as the sequence of N records, in array
\* order, the j-th being the record of the j-th element; for N = 0 it is the
\* empty sequence.
C12_ListElementExtraction ==
    \A k \in ExtractEvents :
        \A i \in 1..Len(Declared) :
            (IsListElementMapping(i) /\ ArrayOfObjects(events[k].arg, Declared[i].mapping.inner)) =>
                /\ Stored(k, i).k = "arr"
                /\ Len(Stored(k, i).e) = Len(events[k].arg.e)
                /\ \A j \in 1..Len(events[k].arg.e) :
                      IsRecordOf(Stored(k, i).e[j], events[k].arg.e[j], Declared[i].mapping.inner)

\* C13: for a response that is an array of N elements, a parameter mapped
\* with ["*"] is stored as the N-th element when N >= 1 and keeps the value
\* it had when N = 0.
C13_LastElementWins ==
    \A k \in ExtractEvents :
        \A i \in 1..Len(Declared) :
            (IsListMapping(i) /\ events[k].arg.k = "arr" /\ ~ExtractRaised(k)) =>
                LET elements == events[k].arg.e
                IN  Stored(k, i) = IF Len(elements) >= 1
                                   THEN elements[Len(elements)]
                                   ELSE Before(k, i)

\* the i-th declared parameter extracted by itself from the response of
\* the call logged at position k
ExtractedAlone(k, i) ==
    extract_output_parameters(
        [configuration EXCEPT !.output_parameter_mapping = << Declared[i] >>],
        events[k].saw, events[k].arg)

\* C18: after _extract_output_parameters has returned normally, every
\* declared output parameter holds what its own mapping yields on the
\* response, whatever the mappings declared before it.
C18_EveryParameterIsExtracted ==
    \A k \in ExtractEvents :
        ~ExtractRaised(k) =>
            \A i \in 1..Len(Declared) :
                ExtractedAlone(k, i).raised = NoError =>
                    Stored(k, i) = ExtractedAlone(k, i).output_parameters[Declared[i].name]

\* the configuration declares a mapping whose first element is neither "."
\* nor "*"
HasIllegalMapping ==
    \E i \in 1..Len(Declared) : Declared[i].mapping.first \notin {".", "*"}

\* C17: under a configuration with a mapping whose first element is
\* neither "." nor "*", every call of _extract_output_parameters raises a
\* configuration error that leaves Entity.retrieve_data and
\* EntityList.retrieve_data, and no post-request callback is called.
C17_IllegalMappingIsFatal ==
    HasIllegalMapping =>
        /\ \A k \in ExtractEvents :
              /\ ExtractRaised(k)
              /\ error.kind = "IllegalConfigurationError"
        /\ \A k \in 1..Len(events) : events[k].op # "post"

\* The code keeps no validation parameters of its own: the only expected
\* value that can be supplied alongside the input is an input parameter
\* that bears the name of an output parameter.
ValidationParameters ==
    Range(configuration.input_parameters) \cap Range(OutputNames(configuration))

\* str(value) for a str and for None
StrOf(value) == IF value.k = "str" THEN value.s ELSE <<"N", "o", "n", "e">>

\* C14: when extraction produces the value V for a validation parameter
\* whose expected value is E, the stored validation value stays E if
\* str(V) = str(E) and becomes V otherwise.
C14_ValidationValueFollowsExtraction ==
    \A k \in ExtractEvents :
        ~ExtractRaised(k) =>
            \A p \in ValidationParameters :
                LET E      == events[k].saw.input_parameters[p]
                    V      == events[k].left.output_parameters[p]
                    stored == events[k].left.input_parameters[p]
                IN  /\ V.k \in {"str", "null"}
                    /\ StrOf(V) = E => stored = E
                    /\ StrOf(V) # E => /\ stored # E
                                       /\ V.k = "str" => stored = V.s

\* C15: a callback of one parameter is called with the entity; a
\* post-request callback of two parameters is called with the entity and
\* the parsed JSON response; a callback of any other number of parameters
\* is not called: when the pipeline reaches it an "Invalid callback" error
\* leaves Entity.retrieve_data and EntityList.retrieve_data, after the
\* callbacks configured before it have run and before any configured after
\* it runs.
C15_CallbackCallingConvention ==
    \A k \in 1..Len(events) :
        events[k].op \in {"pre", "post"} =>
            LET ev == events[k]
                n  == ParameterCount(ev.name)
            IN  /\ n = 1 =>
                      LET r == CallCallback(ev.name, ev.saw)
                      IN  ev.arg = JNull /\ ev.left = r.entity /\ ev.ret = r.ret
                /\ (n = 2 /\ ev.op = "post") =>
                      \E x \in ExtractEvents :
                          /\ x < k
                          /\ events[x].entity = ev.entity
                          /\ ev.arg = events[x].arg
                          /\ LET r == CallCallbackWithResponse(ev.name, ev.saw, events[x].arg)
                             IN  ev.left = r.entity /\ ev.ret = r.ret
                /\ n \notin {1, 2} =>
                      /\ k = Len(events)
                      /\ RetrievalAborted
                      /\ error = Raise("IllegalArgumentError", "Invalid callback")
                      /\ ev.left = ev.saw
                      /\ list[ev.entity] = ev.saw
                      /\ \A h \in 1..(ev.i - 1) :
                            \E j \in 1..(k - 1) :
                                /\ events[j].entity = ev.entity
                                /\ events[j].op = ev.op
                                /\ events[j].i = h

\* C15 witness: the post-request callbacks of one and of two parameters
\* have been called, then the pipeline reached the callback of three
\* parameters, with one more callback configured after it.
C15_Witness ==
    /\ RetrievalAborted
    /\ Len(events) >= 3
    /\ LET k == Len(events)
       IN  /\ events[k].op = "post"
           /\ ParameterCount(events[k].name) = 3
           /\ events[k].i < Len(configuration.post_request_callbacks)
           /\ events[k - 1].op = "post"
           /\ ParameterCount(events[k - 1].name) = 2
           /\ events[k - 1].arg # JNull
           /\ events[k - 1].left # events[k - 1].saw
           /\ events[k - 2].op = "post"
           /\ ParameterCount(events[k - 2].name) = 1

\* the URI of the template for the input parameters entity i was
\* constructed with
UriAtConstruction(i) ==
    replace_variables(
        configuration.uri_template,
        UriVariableValues(configuration, constructed[list[i].id].input_parameters)).uri

\* C19: the uri of an entity is the one computed in its constructor from
\* the template, the api key and the input parameters given then; no step
\* of retrieve_data changes it, and the GET is issued to it.
C19_UriIsFixedAtConstruction ==
    \A i \in 1..Len(list) :
        /\ list[i].uri = UriAtConstruction(i)
        /\ \A k \in 1..Len(events) :
              events[k].entity = i =>
                  /\ events[k].saw.uri = UriAtConstruction(i)
                  /\ events[k].left.uri = UriAtConstruction(i)
                  /\ events[k].op = "get" => events[k].name = UriAtConstruction(i)

\* C19 witness: a pre-request callback changed an input parameter that
\* occurs in the template, and the GET was then issued.
C19_Witness ==
    \E i \in 1..Len(list) :
        /\ list[i].input_parameters # constructed[list[i].id].input_parameters
        /\ list[i].input_parameters["id"] # constructed[list[i].id].input_parameters["id"]
        /\ \E k \in 1..Len(events) : events[k].entity = i /\ events[k].op = "get"

\* the pre-request callback logged at position k raised a configuration
\* error
PreCallbackRaisedConfigurationError(k) ==
    /\ events[k].op = "pre"
    /\ ParameterCount(events[k].name) = 1
    /\ CallCallback(events[k].name, events[k].saw).raised # NoError
    /\ CallCallback(events[k].name, events[k].saw).raised.kind = "IllegalConfigurationError"

\* C21: a configuration error raised by a pre-request callback of an entity
\* leaves Entity.retrieve_data and EntityList.retrieve_data: it is the last
\* statement of the run, so no later callback, delay or GET happens for
\* that entity, nothing happens for the entities after it, and
\* Entity.retrieve_data has not returned for it.
C21_ConfigurationErrorInPreCallbackAborts ==
    \A k \in 1..Len(events) :
        PreCallbackRaisedConfigurationError(k) =>
            /\ k = Len(events)
            /\ RetrievalAborted
            /\ error = CallCallback(events[k].name, events[k].saw).raised
            /\ cur = events[k].entity
            /\ \A j \in 1..Len(events) :
                  /\ events[j].entity <= events[k].entity
                  /\ events[j].entity = events[k].entity =>
                        /\ events[j].op = "pre"
                        /\ events[j].i <= events[k].i
            /\ ~csv_file.written

\* C21 witness: the second pre-request callback of the first of two
\* entities raised a configuration error, after the first callback had run
\* and with one more callback configured after it.
C21_Witness ==
    /\ Len(list) = 2
    /\ Len(events) = 2
    /\ PreCallbackRaisedConfigurationError(2)
    /\ events[2].entity = 1
    /\ events[2].i = 2
    /\ events[2].i < Len(configuration.pre_request_callbacks)
    /\ events[1].op = "pre" /\ events[1].left # events[1].saw

====
